---- MODULE Spec2Model ----
(***************************************************************************)
(* The LRU cache of the developer dictionary: class LRUCache (a doubly     *)
(* linked list of Node objects between two sentinels, plus a plain object  *)
(* used as the key -> Node index), modelled as a heap of Node records that *)
(* the methods rewrite pointer by pointer, in the order the code does.     *)
(***************************************************************************)
EXTENDS Integers, Sequences, FiniteSets, TLC

(* ------------------------------ bounds -------------------------------- *)
NumKeys == 4
MaxCapacity == 3

KeyNames == <<"a", "b", "list_1", "c", "list_2", "d", "e", "f">>

\* the keys callers use, and the payloads they store: two that differ, one
\* of them undefined (a legal payload)
Keys == {KeyNames[i] : i \in 1..NumKeys}
Values == {"undefined", "v1"}

\* a name every plain object inherits from Object.prototype
ObjectPrototypeKeys == {"constructor"}

\* capacities the constructor is given: the contract's, and the others it takes
Capacities == 1..MaxCapacity
NonPositiveCapacities == {-1, 0}

\* the dictionary: the terms requests name (one of them begins like a listing
\* key), the keys of the listing queries, the versions a record goes through,
\* the words of a bulk request
MaxVersion == 2
MaxBulk == 2
Terms == {"a", "list_1"}
ListKeys == {"list_1", "list_2"}

\* the slots of the requests in flight: one for a request that reads the
\* dictionary and, when requests overlap, another for one that changes it
Reader == 1
Writer == 2
Slots == {Reader, Writer}

(* ------------------------------- heap --------------------------------- *)
\* references: null, undefined (a property that is not there), the two
\* sentinels, the Node objects created by put, and the function the name
\* 'constructor' resolves to on any plain object
NULL == -1
UNDEFINED == -2
head == 0
tail == 1
NodeIds == 2..(NumKeys + 2)
ObjectFn == NumKeys + 3
Refs == {head, tail} \cup NodeIds \cup {ObjectFn}

VARIABLES
  capacity,   \* this.capacity
  cache,      \* this.cache: own properties, key -> Node reference
  size,       \* this.size
  heap,       \* the objects: reference -> [key, value, prev, next]
  last,       \* the last call: its name, arguments, branch and result
  recency,    \* the abstract cache: entries, most recently touched first
  history,    \* the calls made on the empty cache, while they follow a script
  store,      \* the Word collection: term -> version of its record, 0 if none
  reqs        \* the requests in flight: what each handler holds at its await

vars == <<capacity, cache, size, heap, last, recency, history, store, reqs>>

\* new Node(key, value)
Node(key, value) == [key |-> key, value |-> value, prev |-> NULL, next |-> NULL]

\* a slot of the heap that holds no object (never allocated, or collected)
FreeSlot == [key |-> "", value |-> "", prev |-> NULL, next |-> NULL]

\* the function Object: not a Node, so reading .prev or .next gives undefined
ForeignObject == [key |-> "undefined", value |-> "undefined",
                  prev |-> UNDEFINED, next |-> UNDEFINED]

\* `this` in the middle of a method: the fields so far, and whether a
\* TypeError has been thrown (the statements after a throw do not run)
This ==
  [capacity |-> capacity, heap |-> heap, cache |-> cache, size |-> size,
   err |-> FALSE]

\* target.field = val; a property write on null or undefined throws TypeError
Write(t, target, field, val) ==
  IF t.err THEN t
  ELSE IF target \notin Refs THEN [t EXCEPT !.err = TRUE]
  ELSE [t EXCEPT !.heap[target][field] = val]

\* target.field; a property read on null or undefined throws TypeError
\* (callers test the reference first), a missing property reads undefined
Read(t, target, field) ==
  IF target \in Refs THEN t.heap[target][field] ELSE UNDEFINED

\* key in this.cache: own properties and the inherited ones
KeyIn(c, key) == key \in DOMAIN c \/ key \in ObjectPrototypeKeys

\* this.cache[key], for a key that is `in` this.cache
Lookup(c, key) == IF key \in DOMAIN c THEN c[key] ELSE ObjectFn

\* this.cache[key] = node
SetCache(t, key, node) ==
  IF t.err THEN t ELSE [t EXCEPT !.cache = (key :> node) @@ t.cache]

\* delete this.cache[key] that leaves the property in place
DeleteCache_Keeps(t, key) == t

\* delete this.cache[key]
DeleteCache(t, key) ==
  IF t.err THEN t
  ELSE [t EXCEPT !.cache = [k \in DOMAIN t.cache \ {key} |-> t.cache[k]]]

\* this.size = n
SetSize(t, n) == IF t.err THEN t ELSE [t EXCEPT !.size = n]

\* the reference `new Node` returns: a slot no live object occupies (the one
\* set aside for the key when it is free, so that the same list is always
\* the same heap; any other free slot when it is not)
NewRef(h, key) ==
  LET own == {r \in NodeIds : \E i \in 1..NumKeys : KeyNames[i] = key /\ r = i + 1}
      free == {r \in NodeIds : h[r] = FreeSlot}
      from == IF own \cap free # {} THEN own \cap free ELSE free
  IN  CHOOSE r \in from : \A q \in from : r <= q

\* new Node(key, value), bound to reference r
New(t, r, key, value) ==
  IF t.err THEN t ELSE [t EXCEPT !.heap[r] = Node(key, value)]

\* the objects reachable from the cache object and the global Object
RECURSIVE Reach(_, _)
Reach(h, S) ==
  LET N == S \cup (({h[r].prev : r \in S} \cup {h[r].next : r \in S}) \cap Refs)
  IN  IF N = S THEN S ELSE Reach(h, N)

\* garbage collection: Node objects nothing refers to any more are gone
Collect(h, c) ==
  LET live == Reach(h, {head, tail, ObjectFn} \cup {c[k] : k \in DOMAIN c})
  IN  [r \in Refs |-> IF r \in live THEN h[r] ELSE FreeSlot]

(* ------------------------- the linked list ---------------------------- *)
\* removeNode(node) that forgets next.prev = prev
removeNode_OneWay(t, node) ==
  LET prev == Read(t, node, "prev")
      next == Read(t, node, "next")
  IN  Write(t, prev, "next", next)

\* removeNode(node): prev.next = next; next.prev = prev
removeNode(t, node) ==
  LET prev == Read(t, node, "prev")
      next == Read(t, node, "next")
  IN  Write(Write(t, prev, "next", next), next, "prev", prev)

\* addToFront(node) with the sentinels confused: it links the node before tail
addToFront_AtTail(t, node) ==
  LET t1 == Write(t, node, "prev", Read(t, tail, "prev"))
      t2 == Write(t1, node, "next", tail)
      t3 == Write(t2, Read(t2, tail, "prev"), "next", node)
  IN  Write(t3, tail, "prev", node)

\* addToFront(node)
addToFront(t, node) ==
  LET t1 == Write(t, node, "next", Read(t, head, "next"))
      t2 == Write(t1, node, "prev", head)
      t3 == Write(t2, Read(t2, head, "next"), "prev", node)
  IN  Write(t3, head, "next", node)

\* moveToFront(node)
moveToFront(t, node) == addToFront(removeNode(t, node), node)

\* removeLRU() taking the node after head: it evicts the newest entry
removeLRU_TakesNewest(t) ==
  LET lruNode == Read(t, head, "next")
  IN  IF lruNode = tail
      THEN [this |-> t, ret |-> "null"]
      ELSE [this |-> removeNode(t, lruNode), ret |-> Read(t, lruNode, "key")]

\* removeLRU(): the key of the node before tail, which it unlinks; null
\* (the property name "null" where it is used as one) when there is none
removeLRU(t) ==
  LET lruNode == Read(t, tail, "prev")
  IN  IF lruNode = head
      THEN [this |-> t, ret |-> "null"]
      ELSE [this |-> removeNode(t, lruNode), ret |-> Read(t, lruNode, "key")]

(* --------------------------- the methods ------------------------------ *)
\* what a method hands back: the value it returns, or the TypeError it throws
Outcome(t, ret) == [this |-> t, ret |-> IF t.err THEN "TypeError" ELSE ret]

\* this.cache = {}
EmptyCache == [k \in {} |-> NULL]

\* constructor(capacity): the fields, the two sentinels linked to each other
constructor(c) ==
  [capacity |-> c, cache |-> EmptyCache, size |-> 0, err |-> FALSE,
   heap |-> [r \in Refs |->
              IF r = head THEN [Node("head", "null") EXCEPT !.next = tail]
              ELSE IF r = tail THEN [Node("tail", "null") EXCEPT !.prev = head]
              ELSE IF r = ObjectFn THEN ForeignObject
              ELSE FreeSlot]]

\* get(key) that reads the value and does not promote
get_NoPromotion(t, key) ==
  IF ~KeyIn(t.cache, key) THEN Outcome(t, "undefined")
  ELSE Outcome(t, Read(t, Lookup(t.cache, key), "value"))

\* get(key)
get(t, key) ==
  IF ~KeyIn(t.cache, key) THEN Outcome(t, "undefined")
  ELSE LET node == Lookup(t.cache, key)
           t1 == moveToFront(t, node)
       IN  Outcome(t1, Read(t1, node, "value"))

\* put(key, value) that promotes an existing key and keeps its old value
put_KeepsOldValue(t, key, value) ==
  IF KeyIn(t.cache, key)
  THEN Outcome(moveToFront(t, Lookup(t.cache, key)), "undefined")
  ELSE LET t1 == IF t.size = t.capacity
                 THEN LET lru == removeLRU(t)
                          t0 == DeleteCache(lru.this, lru.ret)
                      IN  SetSize(t0, t0.size - 1)
                 ELSE t
           newNode == NewRef(t1.heap, key)
           t2 == addToFront(New(t1, newNode, key, value), newNode)
           t3 == SetCache(t2, key, newNode)
       IN  Outcome(SetSize(t3, t3.size + 1), "undefined")

\* put(key, value)
put(t, key, value) ==
  IF KeyIn(t.cache, key)
  THEN LET node == Lookup(t.cache, key)
       IN  Outcome(moveToFront(Write(t, node, "value", value), node), "undefined")
  ELSE LET t1 == IF t.size = t.capacity
                 THEN LET lru == removeLRU(t)
                          t0 == DeleteCache(lru.this, lru.ret)
                      IN  SetSize(t0, t0.size - 1)
                 ELSE t
           newNode == NewRef(t1.heap, key)
           t2 == addToFront(New(t1, newNode, key, value), newNode)
           t3 == SetCache(t2, key, newNode)
       IN  Outcome(SetSize(t3, t3.size + 1), "undefined")

\* delete(key) that forgets this.size--
delete_KeepsSize(t, key) ==
  IF ~KeyIn(t.cache, key) THEN Outcome(t, "false")
  ELSE Outcome(DeleteCache(removeNode(t, Lookup(t.cache, key)), key), "true")

\* delete(key)
delete(t, key) ==
  IF ~KeyIn(t.cache, key) THEN Outcome(t, "false")
  ELSE LET node == Lookup(t.cache, key)
           t1 == DeleteCache(removeNode(t, node), key)
       IN  Outcome(SetSize(t1, t1.size - 1), "true")

\* clear() that forgets this.tail.prev = this.head
clear_LeavesTailPrev(t) ==
  LET t1 == SetSize([t EXCEPT !.cache = EmptyCache], 0)
  IN  Outcome(Write(t1, head, "next", tail), "undefined")

\* clear()
clear(t) ==
  LET t1 == SetSize([t EXCEPT !.cache = EmptyCache], 0)
  IN  Outcome(Write(Write(t1, head, "next", tail), tail, "prev", head), "undefined")

\* the loop of getContents with `current` at a node and `contents` holding the
\* entries pushed so far: the entries pushed, and how the loop ends ("ok" at
\* tail, "TypeError" on a null current, "diverges" when it is still walking
\* after more steps than there are objects)
RECURSIVE Walk(_, _, _, _)
Walk(t, current, contents, fuel) ==
  IF current = tail THEN [contents |-> contents, ret |-> "ok"]
  ELSE IF current \notin Refs THEN [contents |-> contents, ret |-> "TypeError"]
  ELSE IF fuel = 0 THEN [contents |-> contents, ret |-> "diverges"]
  ELSE Walk(t, Read(t, current, "next"),
            Append(contents, [key |-> Read(t, current, "key"),
                              value |-> Read(t, current, "value")]),
            fuel - 1)

\* getContents() that starts its walk at head instead of head.next
getContents_FromHead(t) == Walk(t, head, <<>>, Cardinality(Refs))

\* getContents()
getContents(t) == Walk(t, Read(t, head, "next"), <<>>, Cardinality(Refs))

\* has(key) that looks the key up the way get does, promoting it
has_Promotes(t, key) ==
  IF ~KeyIn(t.cache, key) THEN Outcome(t, "false")
  ELSE Outcome(moveToFront(t, Lookup(t.cache, key)), "true")

\* has(key)
has(t, key) == Outcome(t, IF KeyIn(t.cache, key) THEN "true" ELSE "false")

(* ------------------- the abstract cache (reference) ------------------- *)
\* a plain sequence of entries, most recently touched first: a touch moves
\* the entry to the front, a put of a new key into a full cache drops the last
AbstractHas(r, key) == \E i \in 1..Len(r) : r[i].key = key

AbstractOthers(r, key) == SelectSeq(r, LAMBDA e : e.key # key)

AbstractPut(r, key, value) ==
  <<[key |-> key, value |-> value]>> \o
    (IF AbstractHas(r, key) THEN AbstractOthers(r, key)
     ELSE IF Len(r) = capacity THEN SubSeq(r, 1, Len(r) - 1)
     ELSE r)

AbstractGet(r, key) ==
  IF AbstractHas(r, key)
  THEN SelectSeq(r, LAMBDA e : e.key = key) \o AbstractOthers(r, key)
  ELSE r

AbstractDelete(r, key) == AbstractOthers(r, key)

(* ------------------------- the scripted client ----------------------- *)
\* the keys of the puts of a history, in order
RECURSIVE PutKeys(_)
PutKeys(h) ==
  IF h = <<>> THEN <<>>
  ELSE (IF Head(h).op = "put" THEN <<Head(h).key>> ELSE <<>>) \o PutKeys(Tail(h))

AllDistinct(ks) == \A i, j \in 1..Len(ks) : i # j => ks[i] # ks[j]

\* the script: puts of distinct keys into the empty cache, up to capacity + 1
\* of them, with at most one other call, a get of the first key put, made
\* right after the put that fills the cache
Scripted(h) ==
  /\ Len(h) <= capacity + 2
  /\ AllDistinct(PutKeys(h))
  /\ \A i \in 1..Len(h) :
        \/ h[i].op = "put"
        \/ h[i].op = "get" /\ i = capacity + 1 /\ h[i].key = h[1].key

\* what history holds once a call has left the script
OffScript == <<[op |-> "other", key |-> "", value |-> ""]>>

\* history after one more call
Record(op, key, value) ==
  LET h == Append(history, [op |-> op, key |-> key, value |-> value])
  IN  IF history # OffScript /\ Scripted(h) THEN h ELSE OffScript

(* ----------------------------- the calls ------------------------------ *)
\* the record of a call: what was called with what, whether the key was `in`
\* this.cache and how many entries size counted when it was called, the key
\* put evicted, and what the call returned
Call(op, key, value, hit, lruKey, ret, contents) ==
  [op |-> op, key |-> key, value |-> value, hit |-> hit, before |-> size,
   lruKey |-> lruKey, ret |-> ret, contents |-> contents]

\* a method has run to its return or its throw: the fields it leaves
Leaves(t) ==
  /\ capacity' = t.capacity
  /\ cache' = t.cache
  /\ size' = t.size
  /\ heap' = Collect(t.heap, t.cache)

Put(key, value) ==
  LET r == put(This, key, value)
      hit == KeyIn(cache, key)
      lruKey == IF ~hit /\ size = capacity THEN removeLRU(This).ret ELSE "none"
  IN  /\ Leaves(r.this)
      /\ last' = Call("put", key, value, hit, lruKey, r.ret, <<>>)
      /\ history' = Record("put", key, value)
      /\ UNCHANGED <<store, reqs>>
      /\ recency' = IF r.ret = "TypeError" THEN recency
                    ELSE AbstractPut(recency, key, value)

Get(key) ==
  LET r == get(This, key)
  IN  /\ Leaves(r.this)
      /\ last' = Call("get", key, "", KeyIn(cache, key), "none", r.ret, <<>>)
      /\ history' = Record("get", key, "")
      /\ UNCHANGED <<store, reqs>>
      /\ recency' = IF r.ret = "TypeError" THEN recency
                    ELSE AbstractGet(recency, key)

Delete(key) ==
  LET r == delete(This, key)
  IN  /\ Leaves(r.this)
      /\ last' = Call("delete", key, "", KeyIn(cache, key), "none", r.ret, <<>>)
      /\ history' = Record("delete", key, "")
      /\ UNCHANGED <<store, reqs>>
      /\ recency' = IF r.ret = "TypeError" THEN recency
                    ELSE AbstractDelete(recency, key)

Has(key) ==
  LET r == has(This, key)
  IN  /\ Leaves(r.this)
      /\ last' = Call("has", key, "", KeyIn(cache, key), "none", r.ret, <<>>)
      /\ history' = Record("has", key, "")
      /\ UNCHANGED <<store, reqs>>
      /\ recency' = recency

Clear ==
  LET r == clear(This)
  IN  /\ Leaves(r.this)
      /\ last' = Call("clear", "", "", FALSE, "none", r.ret, <<>>)
      /\ history' = IF r.ret = "TypeError" THEN OffScript ELSE <<>>
      /\ UNCHANGED <<store, reqs>>
      /\ recency' = <<>>

GetContents ==
  LET r == getContents(This)
  IN  /\ Leaves(This)
      /\ last' = Call("getContents", "", "", FALSE, "none", r.ret, r.contents)
      /\ history' = Record("getContents", "", "")
      /\ UNCHANGED <<store, reqs>>
      /\ recency' = recency

\* a slot with no request in it
Idle == [op |-> "idle", key |-> "", pc |-> "idle", n |-> 0, words |-> "",
         rest |-> <<>>]

(* ------------------------- specifications ----------------------------- *)
\* new LRUCache(c)
Constructed(c) ==
  LET t == constructor(c)
  IN  /\ capacity = t.capacity
      /\ cache = t.cache
      /\ size = t.size
      /\ heap = t.heap
      /\ last = [Call("constructor", "", "", FALSE, "none", "undefined", <<>>)
                   EXCEPT !.before = 0]
      /\ recency = <<>>
      /\ history = <<>>
      /\ store = [term \in Terms |-> 0]
      /\ reqs = [slot \in Slots |-> Idle]

\* a cache of a capacity the contract allows, called with ordinary keys
Init == \E c \in Capacities : Constructed(c)

Next ==
  \/ \E key \in Keys, value \in Values : Put(key, value)
  \/ \E key \in Keys : Get(key)
  \/ \E key \in Keys : Delete(key)
  \/ \E key \in Keys : Has(key)
  \/ Clear
  \/ GetContents

Spec == Init /\ [][Next]_vars

\* the same cache, called with any string key: the ordinary ones and a name
\* every plain object inherits
AllKeys == Keys \cup ObjectPrototypeKeys

NextInheritedKeys ==
  \/ \E key \in AllKeys, value \in Values : Put(key, value)
  \/ \E key \in AllKeys : Get(key)
  \/ \E key \in AllKeys : Delete(key)
  \/ \E key \in AllKeys : Has(key)
  \/ Clear
  \/ GetContents

SpecInheritedKeys == Init /\ [][NextInheritedKeys]_vars

\* the constructor takes whatever number it is given
InitAnyCapacity == \E c \in Capacities \cup NonPositiveCapacities : Constructed(c)

SpecAnyCapacity == InitAnyCapacity /\ [][Next]_vars

(* --------------------------- the store -------------------------------- *)
\* the terms in the order sort({term: 1}) gives
TermsSorted == <<"a", "list_1">>

\* the record of a term at a version, as a handler receives it from the store
Doc(term, n) == term \o "@" \o ToString(n)

\* the terms the filter of a listing query selects: the first query has no
\* filter, the second a term filter that only "a" matches
Filter(key) == IF key = "list_1" THEN Terms ELSE {"a"}

\* Word.countDocuments(filter)
Count(key, st) == Cardinality({term \in Filter(key) : st[term] > 0})

\* Word.find(filter).skip(skip).limit(limit).sort({term: 1}), with a page that
\* holds every match
RECURSIVE FindFrom(_, _, _)
FindFrom(key, st, i) ==
  IF i > Len(TermsSorted) THEN ""
  ELSE (IF TermsSorted[i] \in Filter(key) /\ st[TermsSorted[i]] > 0
        THEN Doc(TermsSorted[i], st[TermsSorted[i]]) \o ","
        ELSE "") \o FindFrom(key, st, i + 1)

Find(key, st) == FindFrom(key, st, 1)

\* the result object of a listing: words and pagination.totalItems
Result(totalItems, words) == ToString(totalItems) \o ":" \o words

\* the values an if() takes for false
Falsy == {"undefined", "null", "false", "0", ""}
Truthy(v) == v \notin Falsy

\* the word lists of a bulk request
BulkWords == UNION {[1..n -> Terms] : n \in 1..MaxBulk}

(* ----------------------- clearPaginationCache ------------------------- *)
\* key.startsWith(prefix)
StartsWith(key, prefix) ==
  Len(key) >= Len(prefix) /\ SubSeq(key, 1, Len(prefix)) = prefix

\* cacheContents.forEach(...), from item i on
RECURSIVE ForEach(_, _, _)
ForEach(t, cacheContents, i) ==
  IF i > Len(cacheContents) THEN t
  ELSE ForEach(IF StartsWith(cacheContents[i].key, "list_")
               THEN delete(t, cacheContents[i].key).this
               ELSE t,
               cacheContents, i + 1)

\* clearPaginationCache() that leaves the most recently used entry alone
clearPaginationCache_FromSecond(t) == ForEach(t, getContents(t).contents, 2)

\* clearPaginationCache()
clearPaginationCache(t) == ForEach(t, getContents(t).contents, 1)

(* ------------------------ the request handlers ------------------------ *)
\* a request arrives at a free slot
Arrives(s) == reqs[s] = Idle

\* the handler of slot s stops at an await
Awaits(s, op, key, pc, n, words, rest) ==
  reqs' = [reqs EXCEPT ![s] = [op |-> op, key |-> key, pc |-> pc, n |-> n,
                               words |-> words, rest |-> rest]]

\* the handler of slot s has sent its response
Done(s) == reqs' = [reqs EXCEPT ![s] = Idle]

\* the record of a response: the route, the term or listing key, for a bulk
\* request the number of words it has saved, whether the key was cached when
\* the handler made its last step, and the status
Respond(op, key, added, status) ==
  last' = Call(op, key, added, KeyIn(cache, key), "none", status, <<>>)

\* the record of a step that sends no response
Pending == last' = Call("await", "", "", FALSE, "none", "", <<>>)

\* what the steps of the handlers leave alone
NoCall == UNCHANGED <<recency, history>>

\* GET /api/words/:term, up to the await: the cache lookup
GetTerm_Start(s, term) ==
  LET r == get(This, term)
  IN  /\ Arrives(s)
      /\ Leaves(r.this)
      /\ IF Truthy(r.ret)
         THEN reqs' = reqs /\ Respond("GET /:term", term, "", "200")
         ELSE Awaits(s, "GET /:term", term, "findOne", 0, "", <<>>) /\ Pending
      /\ UNCHANGED store /\ NoCall

\* Word.findOne({term}) of GET /api/words/:term
GetTerm_FindOne(s) ==
  /\ reqs[s].op = "GET /:term" /\ reqs[s].pc = "findOne"
  /\ Awaits(s, reqs[s].op, reqs[s].key, "resume", store[reqs[s].key], "", <<>>)
  /\ Leaves(This) /\ Pending
  /\ UNCHANGED store /\ NoCall

\* GET /api/words/:term, after the await
GetTerm_Resume(s) ==
  LET term == reqs[s].key
      word == Doc(term, reqs[s].n)
  IN  /\ reqs[s].op = "GET /:term" /\ reqs[s].pc = "resume"
      /\ IF reqs[s].n = 0
         THEN Leaves(This) /\ Respond("GET /:term", term, "", "404")
         ELSE /\ Leaves(put(This, term, word).this)
              /\ Respond("GET /:term", term, "", "200")
      /\ Done(s)
      /\ UNCHANGED store /\ NoCall

\* GET /api/words, up to the first await: the cache lookup
List_Start(s, cacheKey) ==
  LET r == get(This, cacheKey)
  IN  /\ Arrives(s)
      /\ Leaves(r.this)
      /\ IF Truthy(r.ret)
         THEN reqs' = reqs /\ Respond("GET /", cacheKey, "", "200")
         ELSE Awaits(s, "GET /", cacheKey, "countDocuments", 0, "", <<>>) /\ Pending
      /\ UNCHANGED store /\ NoCall

\* Word.countDocuments(filter) of GET /api/words
List_CountDocuments(s) ==
  /\ reqs[s].op = "GET /" /\ reqs[s].pc = "countDocuments"
  /\ Awaits(s, reqs[s].op, reqs[s].key, "find", Count(reqs[s].key, store), "", <<>>)
  /\ Leaves(This) /\ Pending
  /\ UNCHANGED store /\ NoCall

\* Word.find(filter)... of GET /api/words
List_Find(s) ==
  /\ reqs[s].op = "GET /" /\ reqs[s].pc = "find"
  /\ Awaits(s, reqs[s].op, reqs[s].key, "resume", reqs[s].n,
            Find(reqs[s].key, store), <<>>)
  /\ Leaves(This) /\ Pending
  /\ UNCHANGED store /\ NoCall

\* GET /api/words, after the awaits
List_Resume(s) ==
  LET result == Result(reqs[s].n, reqs[s].words)
  IN  /\ reqs[s].op = "GET /" /\ reqs[s].pc = "resume"
      /\ Leaves(put(This, reqs[s].key, result).this)
      /\ Respond("GET /", reqs[s].key, "", "200")
      /\ Done(s)
      /\ UNCHANGED store /\ NoCall

\* POST /api/words: Word.findOne({term}), and the 409 if the term exists
Post_FindOne(s, term) ==
  /\ Arrives(s)
  /\ IF store[term] > 0
     THEN reqs' = reqs /\ Respond("POST /", term, "", "409")
     ELSE Awaits(s, "POST /", term, "save", 0, "", <<>>) /\ Pending
  /\ Leaves(This)
  /\ UNCHANGED store /\ NoCall

\* newWord.save() of POST /api/words (the term is the collection's key)
Post_Save(s) ==
  /\ reqs[s].op = "POST /" /\ reqs[s].pc = "save"
  /\ store[reqs[s].key] = 0
  /\ store' = [store EXCEPT ![reqs[s].key] = 1]
  /\ Awaits(s, reqs[s].op, reqs[s].key, "resume", 1, "", <<>>)
  /\ Leaves(This) /\ Pending /\ NoCall

\* POST /api/words, after the save
Post_Resume(s) ==
  /\ reqs[s].op = "POST /" /\ reqs[s].pc = "resume"
  /\ Leaves(clearPaginationCache(This))
  /\ Respond("POST /", reqs[s].key, "", "201")
  /\ Done(s)
  /\ UNCHANGED store /\ NoCall

\* POST /api/words/bulk, up to the first await
Bulk_Start(s, words) ==
  /\ Arrives(s)
  /\ Awaits(s, "POST /bulk", "", "findOne", 0, "", words)
  /\ Leaves(This) /\ Pending
  /\ UNCHANGED store /\ NoCall

\* where the loop of POST /api/words/bulk goes on after a word
BulkNext(rest) == IF Tail(rest) = <<>> THEN "resume" ELSE "findOne"

\* Word.findOne({term}) of POST /api/words/bulk, and the skip of a term that
\* exists
Bulk_FindOne(s) ==
  LET rest == reqs[s].rest
  IN  /\ reqs[s].op = "POST /bulk" /\ reqs[s].pc = "findOne"
      /\ IF store[Head(rest)] > 0
         THEN Awaits(s, reqs[s].op, "", BulkNext(rest), reqs[s].n, "", Tail(rest))
         ELSE Awaits(s, reqs[s].op, "", "save", reqs[s].n, "", rest)
      /\ Leaves(This) /\ Pending
      /\ UNCHANGED store /\ NoCall

\* newWord.save() of POST /api/words/bulk, and results.added.push(newWord)
Bulk_Save(s) ==
  LET rest == reqs[s].rest
  IN  /\ reqs[s].op = "POST /bulk" /\ reqs[s].pc = "save"
      /\ store[Head(rest)] = 0
      /\ store' = [store EXCEPT ![Head(rest)] = 1]
      /\ Awaits(s, reqs[s].op, "", BulkNext(rest), reqs[s].n + 1, "", Tail(rest))
      /\ Leaves(This) /\ Pending /\ NoCall

\* POST /api/words/bulk, after the loop
Bulk_Resume(s) ==
  /\ reqs[s].op = "POST /bulk" /\ reqs[s].pc = "resume"
  /\ Leaves(clearPaginationCache(This))
  /\ Respond("POST /bulk", "", ToString(reqs[s].n), "201")
  /\ Done(s)
  /\ UNCHANGED store /\ NoCall

\* PUT /api/words/:term: Word.findOneAndUpdate(...), and the 404 if there is
\* no such term
Put_FindOneAndUpdate(s, term) ==
  /\ Arrives(s)
  /\ store[term] < MaxVersion
  /\ IF store[term] = 0
     THEN reqs' = reqs /\ Respond("PUT /:term", term, "", "404") /\ UNCHANGED store
     ELSE /\ store' = [store EXCEPT ![term] = store[term] + 1]
          /\ Awaits(s, "PUT /:term", term, "resume", store[term] + 1, "", <<>>)
          /\ Pending
  /\ Leaves(This) /\ NoCall

\* PUT /api/words/:term, after the await
Put_Resume(s) ==
  LET term == reqs[s].key
      updatedWord == Doc(term, reqs[s].n)
      t1 == IF has(This, term).ret = "true"
            THEN put(This, term, updatedWord).this
            ELSE This
  IN  /\ reqs[s].op = "PUT /:term" /\ reqs[s].pc = "resume"
      /\ Leaves(clearPaginationCache(t1))
      /\ Respond("PUT /:term", term, "", "200")
      /\ Done(s)
      /\ UNCHANGED store /\ NoCall

\* DELETE /api/words/:term: Word.findOneAndDelete({term}), and the 404 if
\* there is no such term
Delete_FindOneAndDelete(s, term) ==
  /\ Arrives(s)
  /\ IF store[term] = 0
     THEN reqs' = reqs /\ Respond("DELETE /:term", term, "", "404") /\ UNCHANGED store
     ELSE /\ store' = [store EXCEPT ![term] = 0]
          /\ Awaits(s, "DELETE /:term", term, "resume", store[term], "", <<>>)
          /\ Pending
  /\ Leaves(This) /\ NoCall

\* DELETE /api/words/:term, after the await
Delete_Resume(s) ==
  LET term == reqs[s].key
  IN  /\ reqs[s].op = "DELETE /:term" /\ reqs[s].pc = "resume"
      /\ Leaves(clearPaginationCache(delete(This, term).this))
      /\ Respond("DELETE /:term", term, "", "200")
      /\ Done(s)
      /\ UNCHANGED store /\ NoCall

\* an awaited store call rejects: the handler's catch answers 500
Rejects(s) ==
  /\ reqs[s].pc \in {"findOne", "countDocuments", "find", "save"}
  /\ Leaves(This)
  /\ Respond(reqs[s].op, reqs[s].key,
             IF reqs[s].op = "POST /bulk" THEN ToString(reqs[s].n) ELSE "", "500")
  /\ Done(s)
  /\ UNCHANGED store /\ NoCall

\* the requests, with the handlers that read the dictionary in slot r and
\* those that change it in slot w
NextOn(r, w) ==
  \/ \E term \in Terms : GetTerm_Start(r, term)
  \/ GetTerm_FindOne(r)
  \/ GetTerm_Resume(r)
  \/ \E cacheKey \in ListKeys : List_Start(r, cacheKey)
  \/ List_CountDocuments(r)
  \/ List_Find(r)
  \/ List_Resume(r)
  \/ \E term \in Terms : Post_FindOne(w, term)
  \/ Post_Save(w)
  \/ Post_Resume(w)
  \/ \E words \in BulkWords : Bulk_Start(w, words)
  \/ Bulk_FindOne(w)
  \/ Bulk_Save(w)
  \/ Bulk_Resume(w)
  \/ \E term \in Terms : Put_FindOneAndUpdate(w, term)
  \/ Put_Resume(w)
  \/ \E term \in Terms : Delete_FindOneAndDelete(w, term)
  \/ Delete_Resume(w)
  \/ \E s \in {r, w} : Rejects(s)

\* wordCache = new LRUCache(100), scaled to the largest capacity of the model
InitRequests == Constructed(MaxCapacity)

\* the requests run one at a time: a request arrives when the one before it
\* has been answered
SpecOneAtATime == InitRequests /\ [][NextOn(Reader, Reader)]_vars

\* a request that reads and a request that changes the dictionary run
\* together, their handlers interleaving at the awaits
SpecRequests == InitRequests /\ [][NextOn(Reader, Writer)]_vars

(* ------------------------------ claims -------------------------------- *)
\* what getContents() would return now, and the keys it lists
Contents == getContents(This).contents
KeysOf(s) == {s[i].key : i \in 1..Len(s)}
ContentKeys == KeysOf(Contents)

\* in the properties of a step, old and new are the list before the step and
\* the list after it

\* the entry put(key, value) makes
Entry(key, value) == [key |-> key, value |-> value]

\* s without its last element
Front(s) == SubSeq(s, 1, Len(s) - 1)

\* C1 (capacity >= 1): size never exceeds capacity; and a put of a key that is
\* not present into a full cache removes exactly one entry, the one just
\* before tail, and removes it before it links the new entry: the list after
\* the eviction statements alone is the old one without its last entry, and
\* the list after the put is the new entry in front of that.
C1_EvictStep ==
  (last'.op = "put" /\ ~KeyIn(cache, last'.key) /\ size = capacity) =>
    \A old \in {Contents}, new \in {Contents'} :
    LET lru == removeLRU(This)
        mid == SetSize(DeleteCache(lru.this, lru.ret), lru.this.size - 1)
    IN  /\ Len(old) = capacity
        /\ last'.lruKey = old[Len(old)].key
        /\ getContents(mid).contents = Front(old)
        /\ mid.size = capacity - 1
        /\ DOMAIN mid.cache = DOMAIN cache \ {last'.lruKey}
        /\ new = <<Entry(last'.key, last'.value)>> \o Front(old)
        /\ DOMAIN cache' = (DOMAIN cache \ {last'.lruKey}) \cup {last'.key}
        /\ size' = capacity

\* C1: size never exceeds capacity, and every put that finds the cache full
\* and the key absent evicts the least recently used entry first
C1_CapacityInvariant == [](size <= capacity) /\ [][C1_EvictStep]_vars

\* C1 witness: a put has just evicted the LRU entry of a full cache
C1_Witness ==
  /\ last.op = "put" /\ ~last.hit /\ last.lruKey \in Keys
  /\ last.lruKey \notin ContentKeys
  /\ size = capacity /\ capacity >= 2

\* C2: getContents() lists the live entries by the time of their last touch
\* (a put of the key, or a get that found it), most recent first: the walk of
\* the linked list always equals the abstract cache, a plain sequence in
\* which every touch moves the entry to the front.
C2_RecencyOrder ==
  /\ getContents(This).ret = "ok"
  /\ Contents = recency

\* C2 witness: a get has found a key among several and it now leads the list
C2_Witness ==
  /\ last.op = "get" /\ last.hit /\ last.ret # "TypeError"
  /\ Len(Contents) >= 2 /\ Contents[1].key = last.key

\* the history is capacity + 1 puts of distinct keys and nothing else
OnlyDistinctPuts ==
  /\ Len(history) = capacity + 1
  /\ Len(PutKeys(history)) = capacity + 1
  /\ AllDistinct(PutKeys(history))

\* the history is capacity puts of distinct keys, a get of the first of them,
\* and a put of one more key
PutsWithGetOfOldest ==
  /\ Len(history) = capacity + 2
  /\ Len(PutKeys(history)) = capacity + 1
  /\ AllDistinct(PutKeys(history))
  /\ history[capacity + 1].op = "get"
  /\ history[capacity + 1].key = history[1].key

\* N + 1 distinct puts evict exactly the first-inserted key
C3_NoReads ==
  OnlyDistinctPuts =>
    /\ ContentKeys = {history[i].key : i \in 2..(capacity + 1)}
    /\ \A i \in 2..(capacity + 1) : has(This, history[i].key).ret = "true"
    /\ has(This, history[1].key).ret = "false"
    /\ size = capacity

\* with a get of the oldest key before the last put, the first-inserted key
\* survives and the second-inserted key is the one evicted
C3_WithRead ==
  PutsWithGetOfOldest =>
    LET ks == PutKeys(history)
    IN  /\ has(This, ks[1]).ret = "true"
        /\ has(This, ks[2]).ret = "false"
        /\ ContentKeys = {ks[i] : i \in 1..Len(ks)} \ {ks[2]}

\* C3 as stated, for every capacity N >= 1
C3_Original == C3_NoReads /\ C3_WithRead

\* C3 (amended): N + 1 distinct puts into an empty cache of capacity N >= 1
\* evict exactly the first-inserted key; and for N >= 2, a get of the
\* first-inserted key between the Nth and the (N+1)th put spares it, and the
\* second-inserted key is evicted instead.
C3_Eviction == C3_NoReads /\ (capacity >= 2 => C3_WithRead)

\* C3 witness: the get of the oldest key has spared it in a cache of 2 or more
C3_Witness ==
  /\ PutsWithGetOfOldest /\ capacity >= 2
  /\ history[1].key \in ContentKeys
  /\ history[2].key \notin ContentKeys

\* the fields of the cache object and the list they hold are as they were
CacheUnchanged == UNCHANGED <<capacity, cache, size, heap>>

\* C4: a get of a present key moves that entry to the front and leaves the
\* order, keys and values of the other entries, the index and the size as
\* they were; has(key), for any key, and a get of an absent key change nothing
\* of the cache.
C4_Step ==
  /\ (last'.op = "get" /\ last'.key \in DOMAIN cache) =>
      \A old \in {Contents}, new \in {Contents'} :
        /\ new = AbstractGet(old, last'.key)
        /\ new[1].key = last'.key
        /\ last'.ret = new[1].value
        /\ size' = size /\ capacity' = capacity
        /\ DOMAIN cache' = DOMAIN cache
  /\ (last'.op = "get" /\ last'.key \notin DOMAIN cache) => CacheUnchanged
  /\ last'.op = "has" => CacheUnchanged

\* C4: every get and every has is such a step
C4_ReadFrame == [][C4_Step]_vars

\* C4 witness: a get has brought the oldest of three entries to the front
C4_Witness ==
  /\ last.op = "get" /\ last.key \in DOMAIN cache
  /\ Len(Contents) = 3 /\ Contents[1].key = last.key
  /\ Len(recency) = 3 /\ recency[1].key = last.key

\* C5 (capacity >= 1): after put(k, v), k is present and at the front, and a
\* get(k) made next returns v; a put of a key already present replaces the
\* value, leaves size and the set of keys as they were, and evicts nothing,
\* full or not.
C5_AfterPut ==
  last.op = "put" =>
    /\ last.ret = "undefined"
    /\ has(This, last.key).ret = "true"
    /\ last.key \in DOMAIN cache
    /\ Len(Contents) >= 1
    /\ Contents[1] = Entry(last.key, last.value)
    /\ get(This, last.key).ret = last.value

C5_ExistingStep ==
  (last'.op = "put" /\ last'.key \in DOMAIN cache) =>
    \A old \in {Contents}, new \in {Contents'} :
    /\ size' = size
    /\ DOMAIN cache' = DOMAIN cache
    /\ last'.lruKey = "none"
    /\ new = <<Entry(last'.key, last'.value)>> \o AbstractOthers(old, last'.key)

\* C5: every put leaves its key at the front with its value, and every put
\* of a present key keeps size and keys
C5_PutCorrect == [](C5_AfterPut) /\ [][C5_ExistingStep]_vars

\* C5 witness: a put has replaced the value of a key of a full cache
C5_Witness ==
  /\ last.op = "put" /\ last.hit /\ last.before = capacity
  /\ size = capacity /\ capacity >= 2
  /\ Contents[1] = Entry(last.key, last.value)

\* C6: delete of an absent key returns false and changes nothing; delete of a
\* present key returns true, has(key) is false afterwards, size is smaller by
\* exactly 1, and the other entries keep their values and their order.
C6_Step ==
  /\ (last'.op = "delete" /\ last'.key \notin DOMAIN cache) =>
        /\ last'.ret = "false"
        /\ CacheUnchanged
  /\ (last'.op = "delete" /\ last'.key \in DOMAIN cache) =>
      \A old \in {Contents}, new \in {Contents'} :
        /\ last'.ret = "true"
        /\ ~KeyIn(cache', last'.key)
        /\ last'.key \notin KeysOf(new)
        /\ DOMAIN cache' = DOMAIN cache \ {last'.key}
        /\ size' = size - 1
        /\ new = AbstractOthers(old, last'.key)

\* C6: every delete is such a step
C6_DeleteCorrect == [][C6_Step]_vars

\* C6 witness: a delete has removed one of several entries
C6_Witness ==
  /\ last.op = "delete" /\ last.ret = "true"
  /\ size = last.before - 1 /\ size >= 2
  /\ last.key \notin ContentKeys

\* the cache object a method leaves, garbage collected
Left(t) == [capacity |-> t.capacity, cache |-> t.cache, size |-> t.size,
            heap |-> Collect(t.heap, t.cache)]

\* C7: after clear() size is 0, getContents() is empty, has(k) is false for
\* every key, head and tail are linked to each other; a second clear() leaves
\* the same state; and the cache is in the state of a freshly constructed
\* cache of the same capacity, so that what follows behaves as on a fresh one.
C7_AfterClear ==
  last.op = "clear" =>
    /\ size = 0
    /\ Contents = <<>>
    /\ \A k \in Keys : has(This, k).ret = "false"
    /\ heap[head].next = tail /\ heap[tail].prev = head
    /\ Left(clear(This).this) = Left(This)
    /\ Left(This) = Left(constructor(capacity))

\* C7 witness: a clear has emptied a cache that held entries
C7_Witness == last.op = "clear" /\ last.before >= 2 /\ size = 0

\* the references linked between head and tail, from the front
RECURSIVE LinkedFrom(_, _)
LinkedFrom(current, fuel) ==
  IF current = tail \/ current \notin Refs \/ fuel = 0 THEN <<>>
  ELSE <<current>> \o LinkedFrom(heap[current].next, fuel - 1)

Linked == LinkedFrom(heap[head].next, Cardinality(Refs))
LinkedSet == {Linked[i] : i \in 1..Len(Linked)}

\* C8 (capacity >= 1): size is the number of keys of the index and the number
\* of nodes linked between head and tail; every key of the index maps to a
\* linked node that carries that key, and every linked node is the one the
\* index holds for its key.
C8_IndexMatchesList ==
  /\ size = Cardinality(DOMAIN cache)
  /\ size = Len(Linked)
  /\ Cardinality(LinkedSet) = Len(Linked)
  /\ \A k \in DOMAIN cache : cache[k] \in LinkedSet /\ heap[cache[k]].key = k
  /\ \A n \in LinkedSet :
        heap[n].key \in DOMAIN cache /\ cache[heap[n].key] = n

\* C8 witness: an eviction has just happened in a cache that stays full
C8_Witness ==
  /\ last.op = "put" /\ last.lruKey \in Keys
  /\ size = 2 /\ Cardinality(DOMAIN cache) = 2 /\ Len(Linked) = 2

\* C9: for every string key that has no entry (never inserted, or removed
\* since), the names plain objects inherit included: has returns false, get
\* returns not-found, delete returns false, none of the three changes the
\* cache, put inserts the key, and no call raises an error.
C9_AnyStringKey ==
  /\ last.ret # "TypeError"
  /\ \A k \in AllKeys :
        k \notin ContentKeys =>
          /\ has(This, k).ret = "false"
          /\ get(This, k).ret = "undefined"
          /\ delete(This, k).ret = "false"
          /\ Left(has(This, k).this) = Left(This)
          /\ Left(get(This, k).this) = Left(This)
          /\ Left(delete(This, k).this) = Left(This)
          /\ \A v \in Values :
                /\ put(This, k, v).ret = "undefined"
                /\ getContents(put(This, k, v).this).contents[1] = Entry(k, v)

\* C9, the part that holds: the same, for the keys that are not names a
\* plain object inherits
C9_OrdinaryKeys ==
  \A k \in Keys :
    k \notin ContentKeys =>
      /\ has(This, k).ret = "false"
      /\ get(This, k).ret = "undefined"
      /\ delete(This, k).ret = "false"
      /\ Left(has(This, k).this) = Left(This)
      /\ Left(get(This, k).this) = Left(This)
      /\ Left(delete(This, k).this) = Left(This)
      /\ \A v \in Values :
            /\ put(This, k, v).ret = "undefined"
            /\ getContents(put(This, k, v).this).contents[1] = Entry(k, v)

\* C10: constructing the cache with a capacity of 0 or less fails, so that no
\* cache of such a capacity ever takes a put.
C10_ConstructorRejects == last.op = "put" => capacity >= 1

\* C11 (capacity >= 1): in every state getContents() terminates at tail and
\* returns exactly size entries, the first the node after head and the last
\* the node before tail.
C11_Snapshot ==
  \A r \in {getContents(This)} :
    /\ r.ret = "ok"
    /\ Len(r.contents) = size
    /\ size > 0 =>
         /\ r.contents[1] = Entry(heap[heap[head].next].key, heap[heap[head].next].value)
         /\ r.contents[size] = Entry(heap[heap[tail].prev].key, heap[heap[tail].prev].value)

\* a getContents() step returns that list and changes nothing of the cache: no
\* entry is promoted, index and size are as they were
C11_Step ==
  last'.op = "getContents" =>
    \A old \in {Contents}, new \in {Contents'} :
      /\ CacheUnchanged
      /\ last'.ret = "ok"
      /\ last'.contents = old
      /\ new = old

\* C11: getContents() changes no cache state, terminates, and returns exactly
\* size entries, from the node after head to the node before tail
C11_GetContentsFrame == [](C11_Snapshot) /\ [][C11_Step]_vars

\* C11 witness: getContents() has returned the three entries of a cache
C11_Witness ==
  /\ last.op = "getContents" /\ Len(last.contents) = 3
  /\ size = 3 /\ last.contents = Contents

\* C12: get on a present key returns a result that differs from the result of
\* get on an absent key, whatever value the key was put with.
C12_GetDiscriminates ==
  \A k, j \in Keys :
    (KeyIn(cache, k) /\ ~KeyIn(cache, j)) => get(This, k).ret # get(This, j).ret

\* the client has called put(a, x), put(b, y), get(a), put(c, z) on the empty
\* cache of capacity 2
C13_Script ==
  /\ capacity = 2 /\ Len(history) = 4
  /\ history[1].op = "put" /\ history[1].key = "a"
  /\ history[2].op = "put" /\ history[2].key = "b"
  /\ history[3].op = "get" /\ history[3].key = "a"
  /\ history[4].op = "put" /\ history[4].key = "c"

\* C13 as stated: after the script b is evicted and getContents() lists a
\* before c
C13_Original ==
  C13_Script =>
    /\ "b" \notin ContentKeys
    /\ Contents = <<Entry("a", history[1].value), Entry("c", history[4].value)>>

\* C13 (amended): after the script b is evicted and getContents() lists c, the
\* entry put last, before a
C13_Example ==
  C13_Script =>
    /\ "b" \notin ContentKeys /\ has(This, "b").ret = "false"
    /\ Contents = <<Entry("c", history[4].value), Entry("a", history[1].value)>>

\* C13 witness: the script has run, with different values for a and c
C13_Witness ==
  /\ C13_Script /\ history[1].value # history[4].value
  /\ Len(Contents) = 2 /\ Contents[1].key = "c" /\ Contents[2].key = "a"

\* the sentinels as the constructor makes them, but for the links to the list
Sentinel(r) == [constructor(capacity).heap[r] EXCEPT !.prev = heap[r].prev,
                                                     !.next = heap[r].next]

\* C16 (capacity >= 1): the list is a well-formed doubly-linked list: the
\* sentinels are linked, next and prev are inverse on every linked node,
\* following next from head reaches tail without repeating a node, head and
\* tail are never unlinked or given data, and head.next is tail exactly when
\* the cache is empty.
C16_WellFormedList ==
  /\ heap[head].next \in Refs /\ heap[tail].prev \in Refs
  /\ heap[heap[head].next].prev = head
  /\ heap[heap[tail].prev].next = tail
  /\ \A n \in LinkedSet :
        /\ heap[n].next \in Refs /\ heap[heap[n].next].prev = n
        /\ heap[n].prev \in Refs /\ heap[heap[n].prev].next = n
  /\ getContents(This).ret = "ok"
  /\ Cardinality(LinkedSet) = Len(Linked)
  /\ head \notin LinkedSet /\ tail \notin LinkedSet
  /\ heap[head] = Sentinel(head) /\ heap[head].prev = NULL
  /\ heap[tail] = Sentinel(tail) /\ heap[tail].next = NULL
  /\ (heap[head].next = tail) <=> (size = 0 /\ DOMAIN cache = {})

\* C16 witness: a node has been unlinked from between two others
C16_Witness ==
  /\ last.op = "delete" /\ last.ret = "true" /\ last.before = 3
  /\ Len(Linked) = 2 /\ heap[Linked[1]].next = Linked[2]
  /\ heap[Linked[2]].prev = Linked[1]

\* the eviction statements of put run on a cache whose list holds no entry
\* leave index, list and size as they were
C17_Step ==
  (last'.op = "put" /\ ~KeyIn(cache, last'.key) /\ size = capacity
     /\ heap[head].next = tail) =>
    LET lru == removeLRU(This)
        mid == SetSize(DeleteCache(lru.this, lru.ret), lru.this.size - 1)
    IN  /\ mid.cache = cache
        /\ mid.heap = heap
        /\ mid.size = size

\* C17: the eviction step of a put on an empty list removes nothing and does
\* not decrement size, so size is never negative and never differs from the
\* number of linked entries.
C17_EmptyEvictionNoOp ==
  [](size >= 0 /\ size = Len(Linked)) /\ [][C17_Step]_vars

\* the keys of the listing namespace, and the entries that are not of it
IsListing(key) == StartsWith(key, "list_")
OtherEntries(contents) == SelectSeq(contents, LAMBDA e : ~IsListing(e.key))
NoListing == \A k \in DOMAIN cache : ~IsListing(k)

Mutations == {"POST /", "POST /bulk", "PUT /:term", "DELETE /:term"}
Succeeded == last.op \in Mutations /\ last.ret \in {"200", "201"}

\* what the cache holds for a term after a successful PUT of it: the updated
\* record if the term was cached, nothing if it was not
UpdatedOrAbsent ==
  IF last.hit
  THEN /\ KeyIn(cache, last.key)
       /\ get(This, last.key).ret = Doc(last.key, store[last.key])
  ELSE ~KeyIn(cache, last.key)

\* C15: with the requests running one at a time, after every create, bulk
\* create, update or delete that succeeded the cache holds no listing key;
\* after a delete the term's key is absent; after an update the term's entry
\* holds the updated record if the term was cached, and is absent if not.
C15_AfterMutation ==
  Succeeded =>
    /\ NoListing
    /\ last.op = "DELETE /:term" => ~KeyIn(cache, last.key)
    /\ last.op = "PUT /:term" => UpdatedOrAbsent

\* C15, the part that holds: the same, with the entry of an updated term
\* looked at only if the term does not begin like a listing key
C15_OtherTerms ==
  Succeeded =>
    /\ NoListing
    /\ last.op = "DELETE /:term" => ~KeyIn(cache, last.key)
    /\ (last.op = "PUT /:term" /\ ~IsListing(last.key)) => UpdatedOrAbsent

\* C18: a bulk request that has saved a word and then ends in an error has
\* removed the listing entries by the time it answers.
C18_ErrorPathInvalidates ==
  (last.op = "POST /bulk" /\ last.ret = "500" /\ last.value \notin {"", "0"})
    => NoListing

\* no request is in flight
Quiet == \A s \in Slots : reqs[s] = Idle

\* C19: whenever no request is in flight, the entry of every term (of those
\* that cannot be taken for a listing key) holds the record the store has for
\* the term now: none for a term that is not in the store, none older than
\* the last update.
C19_TermEntriesCurrent ==
  Quiet =>
    \A term \in Terms :
      (~IsListing(term) /\ KeyIn(cache, term)) =>
        /\ store[term] > 0
        /\ get(This, term).ret = Doc(term, store[term])

\* C20: whenever no request is in flight, every cached listing (of the keys
\* that are not also terms) is the result the store would return for it now.
C20_ListingsCurrent ==
  Quiet =>
    \A cacheKey \in ListKeys \ Terms :
      KeyIn(cache, cacheKey) =>
        get(This, cacheKey).ret = Result(Count(cacheKey, store), Find(cacheKey, store))

====
